---- MODULE Spec2Model ----
(***************************************************************************)
(* Content acquisition and deduplication pipeline of project-kesselrun.    *)
(*                                                                         *)
(* Part 1: the deduplication ledger (state_tracker.py, class StateTracker) *)
(*         and its persisted file state.json.                              *)
(* Part 2: the story traversal and the post harvester (scraper.py).        *)
(* Part 3: the orchestrator runs (monitor.py: main, process_account).      *)
(*                                                                         *)
(* Specifications:                                                         *)
(*   SpecLedger  the StateTracker API called in any order with any small   *)
(*               arguments, with saves that may fail and processes that    *)
(*               may be restarted;                                         *)
(*   SpecUnits   the scraper's functions taken alone, the story traversal  *)
(*               step by step;                                             *)
(*   Spec        successive runs of main over the account list;            *)
(*   SpecTest    the same runs with --test.                                *)
(***************************************************************************)
EXTENDS Integers, Sequences, FiniteSets, TLC

VARIABLES
    state,      \* StateTracker.state: dict username -> {posts, stories, last_run}
    file,       \* the file state.json: [exists, text], text a sequence of tokens
    faults,     \* number of _save_state calls that did not complete so far
    last,       \* SpecLedger: the last StateTracker call, its arguments and result
    run,        \* Spec: number of runs of main started so far
    pc,         \* Spec: where the running main is in process_account
    idx,        \* Spec: position in the account list (the loop variable i + 1)
    scraped,    \* Spec: scrape_result of the current account
    new_posts,  \* Spec: process_account's new_posts
    new_stories,\* Spec: process_account's new_stories
    forwarded,  \* history: <<username, kind, id, item>> analysed, analysis returned
    committed,  \* history: <<username, kind, id>> given to a mark_analyzed that returned
    prev,       \* history: the candidate ids of each account's last complete pass
    carousel,   \* SpecUnits: the carousel the browser shows to the running traversal
    loop,       \* SpecUnits: the locals of _scrape_stories_playwright's loop
    tpc,        \* SpecUnits: where the running _scrape_stories is
    captured,   \* SpecUnits: what _scrape_stories returned, and the fallback calls
    call,       \* SpecUnits: the last call of a function taken alone, with its result
    worker,     \* SpecUnits: where the thread running _scrape_stories_playwright is
    browser,    \* SpecUnits: the browser of the running traversal: none, open, closed
    timed_out,  \* SpecUnits: future.result(timeout=300) raised TimeoutError
    auth,       \* Spec: what the login of this run did ("none" before it)
    skip_stories,   \* Spec: main's skip_stories
    story_requests, \* Spec: main's story_requests
    story_failures, \* Spec: main's story_failures
    all_results,    \* Spec: main's all_results
    alerts,     \* Spec: the subjects given to send_system_alert in this run, in order
    dirs,       \* Spec: the account directories this run made and has not removed
    test_mode,  \* Spec: main's test_mode (the --test flag of this run)
    delays,     \* Spec: the inter-account delays main has slept in this run
    external    \* Spec: the uploads and e-mails of this run other than system alerts

ledgerVars == <<state, file, faults>>
runVars == <<run, pc, idx, scraped, new_posts, new_stories>>
histVars == <<forwarded, committed, prev>>
unitVars == <<carousel, loop, tpc, captured, call, worker, browser, timed_out>>
mainVars == <<auth, skip_stories, story_requests, story_failures, all_results, alerts, dirs>>
modeVars == <<test_mode, delays, external>>
vars == <<state, file, faults, last, run, pc, idx, scraped, new_posts, new_stories,
          forwarded, committed, prev, carousel, loop, tpc, captured, call,
          worker, browser, timed_out,
          auth, skip_stories, story_requests, story_failures, all_results, alerts, dirs,
          test_mode, delays, external>>

----------------------------------------------------------------------------
(* Universes and bounds                                                    *)

Users == {"u1", "u2"}

\* shortcodes of the permanent posts and ids of the stories of each account
PostIdsOf == [u \in Users |-> IF u = "u1" THEN {"p1", "p2"} ELSE {"q1"}]
StoryIdsOf == [u \in Users |-> IF u = "u1" THEN {"101", "102"} ELSE {"201"}]
PostIds == UNION {PostIdsOf[u] : u \in Users}
StoryIds == UNION {StoryIdsOf[u] : u \in Users}

\* number of runs of main (one process each) in one behaviour
MaxRuns == 2
\* number of _save_state calls that may fail or be cut short in one behaviour
MaxFaults == 1
\* largest max_stories handed to cleanup_old_stories
MaxKeep == 1

\* last_run of a record that mark_analyzed has just created (Python None, JSON null)
None == "None"
\* datetime.utcnow().isoformat(): a timestamp; its value is read by no decision
utcnow == "utcnow"

Range(s) == {s[i] : i \in DOMAIN s}

\* all sequences over S of length at most n
RECURSIVE SeqsUpTo(_, _)
SeqsUpTo(S, n) ==
    IF n = 0 THEN {<<>>}
    ELSE LET shorter == SeqsUpTo(S, n - 1)
         IN  shorter \cup {Append(s, x) : s \in {t \in shorter : Len(t) = n - 1}, x \in S}

\* list(a_set): the elements of the set, each once, in an order Python does not fix
RECURSIVE Orders(_)
Orders(S) ==
    IF S = {} THEN {<<>>}
    ELSE UNION {{<<x>> \o t : t \in Orders(S \ {x})} : x \in S}

\* a scraped item as the ledger sees it: InstagramPost.shortcode; item is the
\* upstream content the object was captured from (not a field the ledger reads)
Post(id, it) == [shortcode |-> id, item |-> it]

----------------------------------------------------------------------------
(* Part 1: StateTracker                                                    *)

EmptyDict == [u \in {} |-> None]

\* dict.get(key, default)
Get(d, key, default) == IF key \in DOMAIN d THEN d[key] ELSE default

\* json.dump(self.state, f): the document written, as a sequence of tokens. The
\* entries are written in dict order; the order is not observable after json.load.
UserOrder == <<"u1", "u2">>

\* JSON text of a value: None is written as null, a string in quotes
ToJson(v) == IF v = None THEN [json |-> "null"] ELSE [json |-> "string", s |-> v]
FromJson(j) == IF j.json = "null" THEN None ELSE j.s

\* an account record as written and as read back: the lists as arrays of strings
EncodeRecord(r) ==
    [k \in DOMAIN r |-> IF k = "last_run" THEN ToJson(r[k])
                        ELSE [i \in DOMAIN r[k] |-> ToJson(r[k][i])]]
DecodeRecord(j) ==
    [k \in DOMAIN j |-> IF k = "last_run" THEN FromJson(j[k])
                        ELSE [i \in DOMAIN j[k] |-> FromJson(j[k][i])]]

RECURSIVE DumpEntries(_, _)
DumpEntries(st, order) ==
    IF order = <<>> THEN <<>>
    ELSE (IF Head(order) \in DOMAIN st
          THEN <<[tok |-> "entry", key |-> Head(order),
                  value |-> EncodeRecord(st[Head(order)])]>>
          ELSE <<>>) \o DumpEntries(st, Tail(order))

Dump(st) == <<[tok |-> "{"]>> \o DumpEntries(st, UserOrder) \o <<[tok |-> "}"]>>

\* json.load(f) succeeds only on a complete document
WellFormed(text) ==
    /\ Len(text) >= 2
    /\ text[1].tok = "{"
    /\ text[Len(text)].tok = "}"
    /\ \A i \in 2..(Len(text) - 1) : text[i].tok = "entry"

RECURSIVE ParseEntries(_)
ParseEntries(toks) ==
    IF toks = <<>> THEN EmptyDict
    ELSE LET e == toks[Len(toks)]
         IN  (e.key :> DecodeRecord(e.value)) @@ ParseEntries(SubSeq(toks, 1, Len(toks) - 1))

Parse(text) == ParseEntries(SubSeq(text, 2, Len(text) - 1))

NoFile == [exists |-> FALSE, text |-> <<>>]

\* _load_state that never reads the file
_load_state_fresh(f) == EmptyDict

_load_state(f) ==
    IF f.exists
    THEN IF WellFormed(f.text) THEN Parse(f.text) ELSE EmptyDict
    ELSE EmptyDict

\* _save_state: the contents state.json may hold when the call is over. open(.., 'w')
\* truncates the file in place and json.dump writes it piece by piece; an exception
\* (caught and logged) or the death of the process leaves what was written so far.
Written(st) == [exists |-> TRUE, text |-> Dump(st)]

_save_state(st, f, may_fail) ==
    LET text == Dump(st)
    IN  {[exists |-> TRUE, text |-> text]}
            \cup (IF may_fail
                  THEN {f} \cup {[exists |-> TRUE, text |-> SubSeq(text, 1, k)] :
                                    k \in 0..(Len(text) - 1)}
                  ELSE {})

get_analyzed_posts(st, username) ==
    IF username \notin DOMAIN st THEN {}
    ELSE Range(Get(st[username], "posts", <<>>))

get_analyzed_stories(st, username) ==
    IF username \notin DOMAIN st THEN {}
    ELSE Range(Get(st[username], "stories", <<>>))

\* [x for x in items if x.shortcode not in analyzed]
RECURSIVE NotAnalyzed(_, _)
NotAnalyzed(items, analyzed) ==
    IF items = <<>> THEN <<>>
    ELSE (IF Head(items).shortcode \notin analyzed THEN <<Head(items)>> ELSE <<>>)
             \o NotAnalyzed(Tail(items), analyzed)

\* filter_new_posts reading the ledger of the other kind
filter_new_posts_wrong_kind(st, username, all_posts) ==
    NotAnalyzed(all_posts, get_analyzed_stories(st, username))

filter_new_posts(st, username, all_posts) ==
    NotAnalyzed(all_posts, get_analyzed_posts(st, username))

filter_new_stories(st, username, all_stories) ==
    NotAnalyzed(all_stories, get_analyzed_stories(st, username))

\* mark_analyzed extending the lists without the set union
mark_analyzed_append(st, username, post_shortcodes, story_ids) ==
    LET st1 == IF username \notin DOMAIN st
               THEN (username :> [posts |-> <<>>, stories |-> <<>>, last_run |-> None]) @@ st
               ELSE st
        r == st1[username]
    IN  {[st1 EXCEPT ![username] = [posts |-> r["posts"] \o post_shortcodes,
                                    stories |-> r["stories"] \o story_ids,
                                    last_run |-> utcnow]]}

\* mark_analyzed storing the given ids in place of the recorded ones
mark_analyzed_replace(st, username, post_shortcodes, story_ids) ==
    LET st1 == IF username \notin DOMAIN st
               THEN (username :> [posts |-> <<>>, stories |-> <<>>, last_run |-> None]) @@ st
               ELSE st
        r == st1[username]
    IN  {[st1 EXCEPT ![username] = [posts |-> po, stories |-> so, last_run |-> utcnow]] :
            po \in IF post_shortcodes # <<>> THEN Orders(Range(post_shortcodes))
                   ELSE {r["posts"]},
            so \in IF story_ids # <<>> THEN Orders(Range(story_ids))
                   ELSE {r["stories"]}}

\* d[key] = value
Put(d, key, value) == [k \in DOMAIN d \cup {key} |-> IF k = key THEN value ELSE d[k]]

\* mark_analyzed raises KeyError: self.state[username]["posts"] or ["stories"] is
\* read (only when ids of that kind are given) and the record lacks the field
mark_analyzed_raises(st, username, post_shortcodes, story_ids) ==
    /\ username \in DOMAIN st
    /\ \/ post_shortcodes # <<>> /\ "posts" \notin DOMAIN st[username]
       \/ story_ids # <<>> /\ "stories" \notin DOMAIN st[username]

\* mark_analyzed up to the save: the in-memory states it may produce (one for every
\* order list(set) may give), when it does not raise
mark_analyzed(st, username, post_shortcodes, story_ids) ==
    LET st1 == IF username \notin DOMAIN st
               THEN (username :> [posts |-> <<>>, stories |-> <<>>, last_run |-> None]) @@ st
               ELSE st
        r == st1[username]
        with_posts == IF post_shortcodes # <<>>
                      THEN {Put(r, "posts", po) :
                               po \in Orders(Range(r["posts"]) \cup Range(post_shortcodes))}
                      ELSE {r}
        with_stories == IF story_ids # <<>>
                        THEN {Put(r1, "stories", so) :
                                 r1 \in with_posts,
                                 so \in Orders(Range(r["stories"]) \cup Range(story_ids))}
                        ELSE with_posts
    IN  {[st1 EXCEPT ![username] = Put(r2, "last_run", utcnow)] : r2 \in with_stories}

\* lst[-n:]
LastN(lst, n) ==
    IF n = 0 \/ n >= Len(lst) THEN lst
    ELSE SubSeq(lst, Len(lst) - n + 1, Len(lst))

\* cleanup_old_stories: <<in-memory state, whether _save_state is called>>
cleanup_old_stories(st, username, max_stories) ==
    IF username \notin DOMAIN st THEN <<st, FALSE>>
    ELSE LET stories == Get(st[username], "stories", <<>>)
         IN  IF Len(stories) > max_stories
             THEN <<[st EXCEPT ![username] =
                        [k \in DOMAIN st[username] \cup {"stories"} |->
                            IF k = "stories" THEN LastN(stories, max_stories)
                            ELSE st[username][k]]], TRUE>>
             ELSE <<st, FALSE>>

----------------------------------------------------------------------------
(* Part 2: InstagramScraper                                                *)

\* upstream stories; the media id the platform gives each
StoryItems == {"A", "B", "C"}
RealId == [it \in StoryItems |-> IF it = "A" THEN "101"
                                 ELSE IF it = "B" THEN "102" ELSE "103"]
\* what a capture shows when the page displays no story
NoItem == "none"

\* max_posts = None
NoMax == -1
\* max_stories, the safety limit of the traversal
MAX_STORIES == 30

\* for i, post in enumerate(profile.get_posts()): feed is the enumeration, newest
\* first; failing holds the positions whose processing raises (logged, skipped)
RECURSIVE PostsLoop(_, _, _, _, _)
PostsLoop(feed, max_posts, failing, i, posts) ==
    IF i >= Len(feed) THEN posts
    ELSE IF (max_posts # NoMax /\ max_posts # 0) /\ i >= max_posts THEN posts
    ELSE PostsLoop(feed, max_posts, failing, i + 1,
                   IF (i + 1) \in failing THEN posts
                   ELSE Append(posts, Post(feed[i + 1], feed[i + 1])))

_scrape_posts_public(feed, max_posts, failing) == PostsLoop(feed, max_posts, failing, 0, <<>>)

\* The stories carousel of an account as the browser shows it:
\*   locs       the locations in order, each [user, id, item]; id = "" when the
\*              location's URL never carries an id
\*   entry_bare the URL on entry is /stories/<user>/ without an id
\*   end        advancing from the last location: "exit" leaves the stories
\*              section, "wrap" returns to the first location, "stay" changes nothing,
\*              "endless" shows one more location of the account, with an id (or
\*              without) as the first location, every time
\* The browser is [pos, bare]: pos = 0 is a page outside the stories section.

\* the location at pos: one of locs, or one of those an endless carousel adds
Loc(c, pos) ==
    IF pos <= Len(c.locs) THEN c.locs[pos]
    ELSE [user |-> c.locs[1].user,
          id |-> IF c.locs[1].id = "" THEN "" ELSE ToString(100 + pos),
          item |-> "I" \o ToString(pos)]

Enter(c) == IF Len(c.locs) = 0 THEN [pos |-> 0, bare |-> FALSE]
            ELSE [pos |-> 1, bare |-> c.entry_bare]

\* page.url
Url(c, b) ==
    IF b.pos = 0 THEN [stories |-> FALSE, user |-> "", id |-> ""]
    ELSE [stories |-> TRUE, user |-> Loc(c, b.pos).user,
          id |-> IF b.bare THEN "" ELSE Loc(c, b.pos).id]

\* page.mouse.click(right side) / page.keyboard.press("ArrowRight")
Advance(c, b) ==
    IF b.pos = 0 THEN b
    ELSE IF b.pos < Len(c.locs) \/ c.end = "endless" THEN [pos |-> b.pos + 1, bare |-> FALSE]
    ELSE IF c.end = "exit" THEN [pos |-> 0, bare |-> FALSE]
    ELSE IF c.end = "wrap" THEN [pos |-> 1, bare |-> FALSE]
    ELSE b

\* what the page displays (screenshot, media element)
Shown(c, b) == IF b.pos = 0 THEN NoItem ELSE Loc(c, b.pos).item

TempId(story_count) == "temp_" \o ToString(story_count)

\* what goes wrong in a traversal: while item number `at` is being captured,
\*   "screenshot"  page.screenshot raises (it is in no try block)
\*   "stamp"       _add_timestamp_to_screenshot fails (it catches and returns False)
\*   "navigation"  the click or key press that advances raises (caught: break)
\*   "download"    _download_media fails (it catches and returns False)
NoFault == [at |-> 0, kind |-> "none"]
Fails(c, n, kind) == c.fault.at = n /\ c.fault.kind = kind

\* the loop-back check left out
LoopedBack_never(story_id, seen_ids) == FALSE

\* media_path of the story: None when _download_media returned False
MediaPath_kept(c, n) == "file"

MediaPath(c, n) == IF Fails(c, n, "download") THEN None ELSE "file"

\* if story_id in seen_ids
LoopedBack(story_id, seen_ids) == story_id \in seen_ids

\* only the last id remembered
Seen_last_only(seen_ids, story_id) == {story_id}

\* seen_ids.add(story_id)
Seen(seen_ids, story_id) == seen_ids \cup {story_id}

\* a loop head without the safety limit
LoopHead_unlimited(story_count) == TRUE

\* while story_count < max_stories
LoopHead(story_count) == story_count < MAX_STORIES

\* one iteration of: while story_count < max_stories
StoryStep(c, ls) ==
    IF ~LoopHead(ls.story_count) THEN [ls EXCEPT !.done = TRUE]
    ELSE IF ~Url(c, ls.b).stories THEN [ls EXCEPT !.done = TRUE]
    ELSE
        LET url0 == Url(c, ls.b)
            forced == url0.id = "" /\ ls.story_count = 0
            b1 == IF forced THEN Advance(c, ls.b) ELSE ls.b
            current_url == Url(c, b1)
            story_id == IF url0.id # "" THEN url0.id
                        ELSE IF forced
                             THEN (IF current_url.stories /\ current_url.id # ""
                                   THEN current_url.id ELSE TempId(ls.story_count))
                             ELSE TempId(ls.story_count)
            n == ls.story_count + 1
        IN  IF LoopedBack(story_id, ls.seen_ids) THEN [ls EXCEPT !.b = b1, !.done = TRUE]
            ELSE IF Fails(c, n, "screenshot")
            THEN [ls EXCEPT !.b = b1, !.story_count = n,
                            !.seen_ids = Seen(ls.seen_ids, story_id),
                            !.done = TRUE, !.raised = TRUE]
            ELSE
                LET story_post == Post(story_id, Shown(c, b1))
                    b2 == Advance(c, b1)
                    b3 == IF Url(c, b2) = current_url THEN Advance(c, b2) ELSE b2
                IN  IF Fails(c, n, "navigation")
                    THEN [ls EXCEPT !.b = b1, !.story_count = n,
                                    !.seen_ids = Seen(ls.seen_ids, story_id),
                                    !.stories = Append(ls.stories, story_post),
                                    !.media_paths = Append(ls.media_paths, MediaPath(c, n)),
                                    !.done = TRUE]
                    ELSE [b |-> b3,
                          story_count |-> n,
                          seen_ids |-> Seen(ls.seen_ids, story_id),
                          stories |-> Append(ls.stories, story_post),
                          media_paths |-> Append(ls.media_paths, MediaPath(c, n)),
                          done |-> (Url(c, b3) = current_url),
                          raised |-> FALSE]

RECURSIVE StoryLoop(_, _)
StoryLoop(c, ls) == IF ls.done THEN ls ELSE StoryLoop(c, StoryStep(c, ls))

\* the locals of the traversal when the loop is entered; media_paths[i] is the
\* media_path of stories[i]
LoopStart(b0) == [b |-> b0, story_count |-> 0, seen_ids |-> {}, stories |-> <<>>,
                  media_paths |-> <<>>, done |-> FALSE, raised |-> FALSE]

\* the check before the loop: no stories for this account
NoStories(username, c) ==
    ~Url(c, Enter(c)).stories \/ Url(c, Enter(c)).user # username

\* _scrape_stories_playwright: [raised, stories], the list it returns unless it raises
_scrape_stories_playwright(username, c) ==
    IF NoStories(username, c) THEN [raised |-> FALSE, stories |-> <<>>]
    ELSE LET ls == StoryLoop(c, LoopStart(Enter(c)))
         IN  [raised |-> ls.raised, stories |-> ls.stories]

\* the fallback: the story items the API lists for the profile, under their media ids
RECURSIVE ApiItems(_, _)
ApiItems(username, locs) ==
    IF locs = <<>> THEN <<>>
    ELSE (IF Head(locs).user = username
          THEN <<Post(RealId[Head(locs).item], Head(locs).item)>> ELSE <<>>)
             \o ApiItems(username, Tail(locs))

_scrape_stories_instaloader(username, c, api_ok) ==
    IF api_ok THEN ApiItems(username, c.locs) ELSE <<>>

\* _scrape_stories: the traversal; if it raises or times out (playwright_ok false:
\* it fails before the loop, or future.result times out), the fallback
_scrape_stories(username, c, playwright_ok, api_ok) ==
    LET outcome == _scrape_stories_playwright(username, c)
    IN  IF playwright_ok /\ ~outcome.raised THEN outcome.stories
        ELSE _scrape_stories_instaloader(username, c, api_ok)

\* the feeds and carousels an account may present when it is scraped
Feeds == [u \in Users |-> IF u = "u1" THEN {<<>>, <<"p1">>} ELSE {<<"q1">>}]

Carousel(u, items, entry_bare, idless, end) ==
    [locs |-> [i \in 1..Len(items) |->
                  [user |-> u, id |-> IF idless THEN "" ELSE RealId[items[i]],
                   item |-> items[i]]],
     entry_bare |-> entry_bare, end |-> end, fault |-> NoFault]

\* the carousels main meets: none, one or two items, with or without ids in their
\* addresses, ending by leaving the viewer (SpecUnits walks the other shapes of
\* UnitCarousels step by step)
Carousels ==
    [u \in Users |->
        {Carousel(u, items, FALSE, il, "exit") :
            items \in {<<>>, <<"A">>, <<"A", "B">>}, il \in BOOLEAN}]

\* no traversal is running; nothing was returned yet
NoCarousel == Carousel("u1", <<>>, FALSE, FALSE, "exit")
NoCapture == [stories |-> <<>>, fallback_calls |-> 0, fallback_failed |-> FALSE]

\* scrape_account: the results it may return for an account. An exception outside
\* the story scrape gives a result with error set; one inside it gives no stories.
scrape_account(username, include_stories) ==
    {[error |-> TRUE, posts |-> <<>>, stories |-> <<>>]}
    \cup {[error |-> FALSE,
           posts |-> _scrape_posts_public(feed, NoMax, {}),
           stories |-> st] :
             feed \in Feeds[username],
             st \in IF include_stories
                    THEN {<<>>} \cup {_scrape_stories(username, c, pw, api) :
                                 c \in Carousels[username], pw \in BOOLEAN, api \in BOOLEAN}
                    ELSE {<<>>}}

\* the same, tabulated
ScrapeResults ==
    [u \in Users |-> [include_stories \in BOOLEAN |-> scrape_account(u, include_stories)]]

----------------------------------------------------------------------------
(* SpecLedger: the StateTracker API                                        *)

NoCall == [op |-> "init", username |-> "", cands |-> <<>>, result |-> <<>>,
           post_shortcodes |-> <<>>, story_ids |-> <<>>, max_stories |-> 0,
           saved |-> FALSE]

P(id) == Post(id, id)

\* the candidate lists handed to the filters: empty, in and out of feed order, with
\* another account's ids, with a repeated id
PostCands ==
    {<<>>, <<P("p1"), P("p2")>>, <<P("p2"), P("q1"), P("p1")>>, <<P("q1"), P("p1"), P("q1")>>}
StoryCands ==
    {<<>>, <<P("101"), P("102")>>, <<P("102"), P("201"), P("101")>>,
     <<P("201"), P("101"), P("201")>>}

\* the id lists handed to mark_analyzed for an account: its own ids, at most as many
\* as it has of the larger kind, repeats allowed
IdLists(S) == SeqsUpTo(S, Cardinality(S))
MarkArgs ==
    [u \in Users |->
        {a \in IdLists(PostIdsOf[u]) \X IdLists(StoryIdsOf[u]) :
            Len(a[1]) + Len(a[2]) <= Cardinality(PostIdsOf[u])}]

NoScrape == [error |-> FALSE, posts |-> <<>>, stories |-> <<>>]
NoPass == <<{"-"}, {"-"}>>

\* before the first call: no state.json, nothing running; test is the test_mode the
\* command line of the deployment gives to every run of main
Start(test) ==
    /\ state = EmptyDict
    /\ file = NoFile
    /\ faults = 0
    /\ last = NoCall
    /\ run = 0
    /\ pc = "idle"
    /\ idx = 1
    /\ scraped = NoScrape
    /\ new_posts = <<>>
    /\ new_stories = <<>>
    /\ forwarded = {}
    /\ committed = {}
    /\ prev = [u \in Users |-> NoPass]
    /\ carousel = NoCarousel
    /\ loop = LoopStart(Enter(NoCarousel))
    /\ tpc = "idle"
    /\ captured = NoCapture
    /\ call = NoCall
    /\ worker = "none"
    /\ browser = "none"
    /\ timed_out = FALSE
    /\ auth = "none"
    /\ skip_stories = FALSE
    /\ story_requests = 0
    /\ story_failures = 0
    /\ all_results = <<>>
    /\ alerts = <<>>
    /\ dirs = {}
    /\ test_mode = test
    /\ delays = 0
    /\ external = {}

\* the deployment runs main without --test
Init == Start(FALSE)

\* the deployment runs main with --test
InitTest == Start(TRUE)

\* the save of a call: the file afterwards, and whether it counts as a fault
Save(st, f2) ==
    /\ file' = f2
    /\ faults' = IF f2 = Written(st) THEN faults ELSE faults + 1

\* StateTracker(STATE_FILE): a new process loads the ledger
Idle == last.op = "init"

NewStateTracker ==
    /\ Idle
    /\ state' = _load_state(file)
    /\ last' = NoCall
    /\ UNCHANGED <<unitVars, mainVars, modeVars, file, faults, runVars, histVars>>

\* filter_new_posts making the record of a username it does not know
CallFilterNewPosts_creating ==
    /\ Idle
    /\ \E u \in Users, cands \in PostCands :
        /\ last' = [NoCall EXCEPT !.op = "filter_new_posts", !.username = u,
                        !.cands = cands, !.result = filter_new_posts(state, u, cands)]
        /\ state' = IF u \in DOMAIN state THEN state
                    ELSE (u :> [posts |-> <<>>, stories |-> <<>>, last_run |-> None])
                         @@ state
    /\ UNCHANGED <<unitVars, mainVars, modeVars, file, faults, runVars, histVars>>

CallFilterNewPosts ==
    /\ Idle
    /\ \E u \in Users, cands \in PostCands :
        last' = [NoCall EXCEPT !.op = "filter_new_posts", !.username = u,
                     !.cands = cands, !.result = filter_new_posts(state, u, cands)]
    /\ UNCHANGED <<unitVars, mainVars, modeVars, ledgerVars, runVars, histVars>>

CallFilterNewStories ==
    /\ Idle
    /\ \E u \in Users, cands \in StoryCands :
        last' = [NoCall EXCEPT !.op = "filter_new_stories", !.username = u,
                     !.cands = cands, !.result = filter_new_stories(state, u, cands)]
    /\ UNCHANGED <<unitVars, mainVars, modeVars, ledgerVars, runVars, histVars>>

CallMarkAnalyzed ==
    /\ Idle
    /\ \E u \in Users :
        \E a \in MarkArgs[u] :
            \E st2 \in mark_analyzed(state, u, a[1], a[2]) :
                \E f2 \in _save_state(st2, file, faults < MaxFaults) :
                    /\ state' = st2
                    /\ Save(st2, f2)
                    /\ last' = [NoCall EXCEPT !.op = "mark_analyzed", !.username = u,
                                    !.post_shortcodes = a[1], !.story_ids = a[2],
                                    !.saved = (faults' = faults)]
    /\ UNCHANGED <<unitVars, mainVars, modeVars, runVars, histVars>>

CallCleanupOldStories ==
    /\ Idle
    /\ \E u \in Users, n \in 0..MaxKeep :
        LET res == cleanup_old_stories(state, u, n)
        IN  /\ state' = res[1]
            /\ IF res[2]
               THEN \E f2 \in _save_state(res[1], file, faults < MaxFaults) :
                        /\ Save(res[1], f2)
                        /\ last' = [NoCall EXCEPT !.op = "cleanup_old_stories",
                                        !.username = u, !.max_stories = n,
                                        !.saved = (faults' = faults)]
               ELSE /\ UNCHANGED <<file, faults>>
                    /\ last' = [NoCall EXCEPT !.op = "cleanup_old_stories",
                                    !.username = u, !.max_stories = n]
    /\ UNCHANGED <<unitVars, mainVars, modeVars, runVars, histVars>>

\* the caller takes the result of the call
Return ==
    /\ ~Idle
    /\ last' = NoCall
    /\ UNCHANGED <<unitVars, mainVars, modeVars, ledgerVars, runVars, histVars>>

NextLedger ==
    \/ NewStateTracker
    \/ Return
    \/ CallFilterNewPosts
    \/ CallFilterNewStories
    \/ CallMarkAnalyzed
    \/ CallCleanupOldStories

SpecLedger == Init /\ [][NextLedger]_vars

----------------------------------------------------------------------------
(* SpecUnits: the scraper's loops and main's alert decision, each taken    *)
(* alone over small inputs. The story traversal runs one iteration at a    *)
(* time.                                                                   *)

\* a feed of three posts, newest first, and the prefixes of it
UnitFeed == <<"n3", "n2", "n1">>
UnitFeeds == {SubSeq(UnitFeed, 1, k) : k \in 0..Len(UnitFeed)}
\* max_posts
MaxCap == 4
Caps == 0..MaxCap

\* a carousel of up to three stories, with at most one fault
UnitItems == <<"A", "B", "C">>
Faults == {NoFault}
          \cup [at : 1..Len(UnitItems),
                kind : {"screenshot", "stamp", "navigation", "download"}]
UnitCarousels ==
    {[Carousel("u1", SubSeq(UnitItems, 1, k), eb, il, e) EXCEPT !.fault = f] :
        k \in 0..Len(UnitItems), eb \in BOOLEAN, il \in BOOLEAN,
        e \in {"exit", "wrap", "stay", "endless"}, f \in Faults}

\* the end of main, after the loop: send_system_alert("Story Scraping Failing")
\* if the failure rate is above 0.5. The rate is kept as the fraction
\* story_failures / story_requests and compared with 1/2 exactly.
\* [divided: the division was evaluated, alerts: the alerts sent]
story_failure_alert_at_half(test, requests, failures) ==
    IF ~test /\ requests > 0
    THEN [divided |-> TRUE,
          alerts |-> IF 2 * failures >= requests THEN <<"story_failures">> ELSE <<>>]
    ELSE [divided |-> FALSE, alerts |-> <<>>]

story_failure_alert(test, requests, failures) ==
    IF ~test /\ requests > 0
    THEN [divided |-> TRUE,
          alerts |-> IF 2 * failures > requests THEN <<"story_failures">> ELSE <<>>]
    ELSE [divided |-> FALSE, alerts |-> <<>>]

\* the accounts that ask for stories in a run of main
MaxRequests == 4

\* _scrape_posts_public is called
CallScrapePostsPublic ==
    /\ tpc = "idle"
    /\ call = NoCall
    /\ \E feed \in UnitFeeds, max_posts \in Caps, failing \in SUBSET (1..Len(UnitFeed)) :
        call' = [op |-> "_scrape_posts_public", feed |-> feed, max_posts |-> max_posts,
                 failing |-> failing \cap (1..Len(feed)),
                 result |-> _scrape_posts_public(feed, max_posts, failing)]
    /\ UNCHANGED <<mainVars, modeVars, ledgerVars, last, runVars, histVars,
                   carousel, loop, tpc, captured,
                   worker, browser, timed_out>>

\* the ledgers an older version may have left in state.json: the record of u1
\* lacks the posts field, the stories field, or both
LegacyRecords ==
    {[stories |-> <<"101">>, last_run |-> utcnow],
     [posts |-> <<"p1">>, last_run |-> utcnow],
     [posts |-> <<"p1">>],
     [last_run |-> None]}

\* a StateTracker is made on such a file; the filters and mark_analyzed are called
CallOnLegacyRecord ==
    /\ tpc = "idle"
    /\ call = NoCall
    /\ \E r \in LegacyRecords,
          post_cands \in {<<>>, <<P("p1"), P("p2")>>},
          story_cands \in {<<>>, <<P("101"), P("102")>>},
          post_shortcodes \in {<<>>, <<"p2">>},
          story_ids \in {<<>>, <<"102">>} :
        LET st == _load_state(Written("u1" :> r))
            raised == mark_analyzed_raises(st, "u1", post_shortcodes, story_ids)
        IN  call' = [op |-> "legacy_record", state |-> st,
                     post_cands |-> post_cands, story_cands |-> story_cands,
                     new_posts |-> filter_new_posts(st, "u1", post_cands),
                     new_stories |-> filter_new_stories(st, "u1", story_cands),
                     post_shortcodes |-> post_shortcodes, story_ids |-> story_ids,
                     raised |-> raised,
                     marked |-> IF raised THEN {}
                                ELSE mark_analyzed(st, "u1", post_shortcodes, story_ids)]
    /\ UNCHANGED <<mainVars, modeVars, ledgerVars, last, runVars, histVars,
                   carousel, loop, tpc, captured,
                   worker, browser, timed_out>>

\* the requests a stories page makes: two video files and an image on the CDN
Requests == {"v1.mp4", "v2.mp4", "img.jpg"}

\* most requests routed to handle_route before, and during, the video step of an item
MaxReqs == 2

\* handle_route's test: '.mp4' in url or 'video' in url.lower(), on a CDN host
IsVideoUrl(url) == url \in {"v1.mp4", "v2.mp4"}

\* handle_route(route): captured_video_urls.append(url) when the URL is a video's
handle_route(captured_video_urls, url) ==
    IF IsVideoUrl(url) THEN Append(captured_video_urls, url) ELSE captured_video_urls

\* handle_route called for each request in turn
RECURSIVE Routed(_, _)
Routed(captured_video_urls, reqs) ==
    IF reqs = <<>> THEN captured_video_urls
    ELSE Routed(handle_route(captured_video_urls, Head(reqs)), Tail(reqs))

\* the buffer taken whole
NewUrls_whole(captured_video_urls, urls_before) == captured_video_urls

\* new_urls = captured_video_urls[urls_before:]
NewUrls(captured_video_urls, urls_before) ==
    SubSeq(captured_video_urls, urls_before + 1, Len(captured_video_urls))

\* the video step of one item: urls_before is taken, the requests `during` are
\* routed while the video is made to play, then video_url is new_urls[-1], or src
\* (what document.querySelector('video')?.src gave) when new_urls is empty
VideoStep(captured_video_urls, during, src) ==
    LET urls_before == Len(captured_video_urls)
        buffer == Routed(captured_video_urls, during)
        new_urls == NewUrls(buffer, urls_before)
    IN  [buffer |-> buffer, urls_before |-> urls_before,
         video_url |-> IF new_urls # <<>> THEN new_urls[Len(new_urls)] ELSE src]

\* a story with a video element is captured, no other call being looked at: requests
\* were routed before its video step (for earlier items, or for this page), others
\* are during it
CallVideoStep ==
    /\ tpc = "idle"
    /\ call = NoCall
    /\ \E before \in SeqsUpTo(Requests, MaxReqs), during \in SeqsUpTo(Requests, MaxReqs),
          src \in {"blob:src", None} :
        call' = [op |-> "video_step", before |-> before, during |-> during, src |-> src,
                 buffer_before |-> Routed(<<>>, before),
                 result |-> VideoStep(Routed(<<>>, before), during, src)]
    /\ UNCHANGED <<mainVars, modeVars, ledgerVars, last, runVars, histVars,
                   carousel, loop, tpc, captured,
                   worker, browser, timed_out>>

\* number of mark_analyzed calls before a cleanup_old_stories call taken alone
MaxCommits == 2

\* the story id lists given to those calls
CommitLists == {<<"101">>, <<"102">>, <<"103">>, <<"101", "102">>}

\* the ledgers in memory after mark_analyzed("u1", [], ids) for each ids of commits
\* in turn, starting from st
RECURSIVE Committing(_, _)
Committing(st, commits) ==
    IF commits = <<>> THEN {st}
    ELSE UNION {Committing(st2, Tail(commits)) :
                    st2 \in mark_analyzed(st, "u1", <<>>, Head(commits))}

\* on a fresh ledger: some mark_analyzed calls for u1, then cleanup_old_stories
CallCommitsThenPrune ==
    /\ tpc = "idle"
    /\ call = NoCall
    /\ \E commits \in SeqsUpTo(CommitLists, MaxCommits) \ {<<>>}, n \in 0..MaxKeep :
        \E st \in Committing(EmptyDict, commits) :
            call' = [op |-> "commits_then_prune", commits |-> commits, max_stories |-> n,
                     before |-> st["u1"]["stories"],
                     after |-> cleanup_old_stories(st, "u1", n)[1]["u1"]["stories"]]
    /\ UNCHANGED <<mainVars, modeVars, ledgerVars, last, runVars, histVars,
                   carousel, loop, tpc, captured,
                   worker, browser, timed_out>>

\* the end of main is reached with these counters
CallStoryFailureAlert ==
    /\ tpc = "idle"
    /\ call = NoCall
    /\ \E test \in BOOLEAN, requests \in 0..MaxRequests :
        \E failures \in 0..requests :
            call' = [op |-> "story_failure_alert", test_mode |-> test,
                     story_requests |-> requests, story_failures |-> failures,
                     result |-> story_failure_alert(test, requests, failures)]
    /\ UNCHANGED <<mainVars, modeVars, ledgerVars, last, runVars, histVars,
                   carousel, loop, tpc, captured,
                   worker, browser, timed_out>>

\* the traversal did not reach its loop: it ended at once, without or with an exception
Ended(raised) == [LoopStart(Enter(NoCarousel)) EXCEPT !.done = TRUE, !.raised = raised]

\* the browser after _scrape_stories_playwright is left: browser.close() before
\* a return; on an exception the exit of `with sync_playwright()` stops
\* Playwright, which closes the browsers it launched
Left(raised) == "closed"

\* _scrape_stories is called: executor.submit, and the thread runs
\* _scrape_stories_playwright up to its loop. No cookies: it returns []. The
\* launch fails, or the page load after it: it raises. No stories: it closes the
\* browser and returns []. Else it enters the loop.
StartStories ==
    /\ tpc = "idle"
    /\ call = NoCall
    /\ \E c \in UnitCarousels :
        /\ carousel' = c
        /\ \/ /\ c.fault = NoFault
              /\ \E start \in {"no_cookies", "launch_fails", "goto_fails"} :
                   /\ loop' = Ended(start # "no_cookies")
                   /\ browser' = IF start = "goto_fails" THEN Left(TRUE) ELSE "none"
              /\ worker' = "finished"
           \/ IF NoStories("u1", c)
              THEN /\ loop' = Ended(FALSE)
                   /\ browser' = Left(FALSE)
                   /\ worker' = "finished"
              ELSE /\ loop' = LoopStart(Enter(c))
                   /\ browser' = "open"
                   /\ worker' = "loop"
    /\ tpc' = "waiting"
    /\ call' = NoCall
    /\ UNCHANGED <<mainVars, modeVars, ledgerVars, last, runVars, histVars, captured, timed_out>>

\* the thread: one iteration of the traversal's loop
Iterate ==
    /\ worker = "loop"
    /\ ~loop.done
    /\ loop' = StoryStep(carousel, loop)
    /\ UNCHANGED <<mainVars, modeVars, ledgerVars, last, runVars, histVars, carousel, tpc, captured,
                   call, worker, browser, timed_out>>

\* the thread: the loop is left, by a break or by an exception, and the function with it
LoopExit ==
    /\ worker = "loop"
    /\ loop.done
    /\ worker' = "finished"
    /\ browser' = Left(loop.raised)
    /\ UNCHANGED <<mainVars, modeVars, ledgerVars, last, runVars, histVars, carousel, loop, tpc,
                   captured, call, timed_out>>

\* future.result gives what the thread returned, or raises what it raised
Result ==
    /\ tpc = "waiting"
    /\ worker = "finished"
    /\ IF loop.raised
       THEN tpc' = "fallback" /\ UNCHANGED captured
       ELSE tpc' = "returned"
            /\ captured' = [NoCapture EXCEPT !.stories = loop.stories]
    /\ UNCHANGED <<mainVars, modeVars, ledgerVars, last, runVars, histVars, carousel, loop, call,
                   worker, browser, timed_out>>

\* future.result(timeout=300) raises TimeoutError while the thread is running: the
\* exception leaves the `with ThreadPoolExecutor` block, whose exit is
\* executor.shutdown(wait=True)
Timeout ==
    /\ tpc = "waiting"
    /\ worker = "loop"
    /\ tpc' = "joining"
    /\ timed_out' = TRUE
    /\ UNCHANGED <<mainVars, modeVars, ledgerVars, last, runVars, histVars,
                   carousel, loop, captured,
                   call, worker, browser>>

\* shutdown(wait=True) returns when the thread has ended; then the except clause
Joined ==
    /\ tpc = "joining"
    /\ worker = "finished"
    /\ tpc' = "fallback"
    /\ UNCHANGED <<mainVars, modeVars, ledgerVars, last, runVars, histVars,
                   carousel, loop, captured,
                   call, worker, browser, timed_out>>

\* the fallback called again when it failed
Fallback_retry ==
    /\ tpc = "fallback"
    /\ \E api_ok \in BOOLEAN :
        /\ captured' = [stories |-> _scrape_stories_instaloader("u1", carousel, api_ok),
                        fallback_calls |-> captured.fallback_calls + 1,
                        fallback_failed |-> ~api_ok]
        /\ tpc' = IF ~api_ok /\ captured.fallback_calls = 0 THEN "fallback" ELSE "returned"
    /\ UNCHANGED <<mainVars, modeVars, ledgerVars, last, runVars, histVars, carousel, loop, call,
                   worker, browser, timed_out>>

\* except Exception: stories = self._scrape_stories_instaloader(...); return stories
Fallback ==
    /\ tpc = "fallback"
    /\ \E api_ok \in BOOLEAN :
        captured' = [stories |-> _scrape_stories_instaloader("u1", carousel, api_ok),
                     fallback_calls |-> captured.fallback_calls + 1,
                     fallback_failed |-> ~api_ok]
    /\ tpc' = "returned"
    /\ UNCHANGED <<mainVars, modeVars, ledgerVars, last, runVars, histVars, carousel, loop, call,
                   worker, browser, timed_out>>

\* the caller of a function taken alone takes its result
TakeResult ==
    /\ tpc = "idle"
    /\ call # NoCall
    /\ call' = NoCall
    /\ UNCHANGED <<mainVars, modeVars, ledgerVars, last, runVars, histVars,
                   carousel, loop, tpc, captured, worker, browser, timed_out>>

\* the caller has the list; the scraper is ready for the next call
Finish ==
    /\ tpc = "returned"
    /\ tpc' = "idle"
    /\ carousel' = NoCarousel
    /\ loop' = LoopStart(Enter(NoCarousel))
    /\ captured' = NoCapture
    /\ worker' = "none"
    /\ browser' = "none"
    /\ timed_out' = FALSE
    /\ UNCHANGED <<mainVars, modeVars, ledgerVars, last, runVars, histVars, call>>

NextUnits ==
    \/ CallScrapePostsPublic
    \/ CallStoryFailureAlert
    \/ CallOnLegacyRecord
    \/ CallCommitsThenPrune
    \/ CallVideoStep
    \/ TakeResult
    \/ StartStories
    \/ Iterate
    \/ LoopExit
    \/ Result
    \/ Timeout
    \/ Joined
    \/ Fallback
    \/ Finish

SpecUnits == Init /\ [][NextUnits]_vars

----------------------------------------------------------------------------
(* Part 3: main and process_account                                        *)

Accounts == <<[username |-> "u1", include_stories |-> TRUE],
              [username |-> "u2", include_stories |-> FALSE]>>

account == Accounts[idx]
username == account.username

Shortcodes(items) == [i \in DOMAIN items |-> items[i].shortcode]
Keys(u, kind, items) == {<<u, kind, items[i].shortcode>> : i \in DOMAIN items}
NewKeys == Keys(username, "post", new_posts) \cup Keys(username, "story", new_stories)
CandIds == <<Range(Shortcodes(scraped.posts)), Range(Shortcodes(scraped.stories))>>

\* scraper._logged_in
logged_in == auth = "ok"

\* account_to_process: include_stories overridden when skip_stories
account_to_process ==
    [account EXCEPT !.include_stories = account.include_stories /\ ~skip_stories]

\* process_account is over (return or exception caught by main) with the tracker
\* holding st: the for loop goes on to the next account, or the loop is over
\* the next account after as many delays as the loop sleeps, whatever the loop does
NextAccount_delay_after_last(st) ==
    /\ IF idx < Len(Accounts)
       THEN idx' = idx + 1 /\ pc' = "scrape"
       ELSE idx' = idx /\ pc' = "summary"
    /\ delays' = delays + 1
    /\ state' = st
    /\ scraped' = NoScrape
    /\ new_posts' = <<>>
    /\ new_stories' = <<>>

\* after the try/except of the loop body: if i < len(accounts) - 1, sleep the
\* inter-account delay; then the next iteration, or the end of the loop
NextAccount(st) ==
    /\ IF idx < Len(Accounts)
       THEN idx' = idx + 1 /\ pc' = "scrape" /\ delays' = delays + 1
       ELSE idx' = idx /\ pc' = "summary" /\ delays' = delays
    /\ state' = st
    /\ scraped' = NoScrape
    /\ new_posts' = <<>>
    /\ new_stories' = <<>>

\* process_account returned result_data: all_results.append(result_data), the
\* story counters, then the next account
Returned(st, result_data) ==
    /\ all_results' = Append(all_results, result_data)
    /\ IF account_to_process.include_stories
       THEN /\ story_requests' = story_requests + 1
            /\ story_failures' = story_failures
                                 + (IF result_data.scraped_stories_count = 0 THEN 1 ELSE 0)
       ELSE UNCHANGED <<story_requests, story_failures>>
    /\ NextAccount(st)

\* process_account raised: main's except clause logs, then the next account
Excepted(st) ==
    /\ UNCHANGED <<all_results, story_requests, story_failures>>
    /\ NextAccount(st)

\* result_data as process_account returns it: analysed holds the items of its
\* analysis_result, error whether that result carries an error
ResultData(stories_count, analysed, error) ==
    [username |-> username, scraped_stories_count |-> stories_count,
     analysed |-> analysed, error |-> error]

\* uploads that do not look at the mode
uploads_always(test) == {"drive_upload"}

\* the services main sets up: the Drive uploader and the e-mail sender exist only
\* outside test mode (both are taken to be configured); the analyzer uploads the
\* media it analyses, and process_account the PDF report, when the uploader exists
uploads(test) == IF test THEN {} ELSE {"drive_upload"}

\* the summary e-mail after the loop: if not test_mode and email_sender and
\* subscribers and all_results
summary_email(test, results) ==
    IF ~test /\ results # <<>> THEN {"summary_email"} ELSE {}

\* the alerts of the start of main with the login alert sent again on the way out
start_alerts_repeated(test, is_stale, a) ==
    (IF is_stale /\ ~test THEN <<"cookie_stale">> ELSE <<>>)
    \o (IF a = "raised" /\ ~test THEN <<"login_failed", "login_failed">> ELSE <<>>)

\* the system alerts main sends before the loop: the stale cookie alert (if is_stale
\* and not test_mode), then the login alert in the except clause of scraper.login()
start_alerts(test, is_stale, a) ==
    (IF is_stale /\ ~test THEN <<"cookie_stale">> ELSE <<>>)
    \o (IF a = "raised" /\ ~test THEN <<"login_failed">> ELSE <<>>)

\* main starts: a new process with or without --test, StateTracker(STATE_FILE), the
\* cookie age check, then the login when some account wants stories (one does) and
\* cookies or a user name are configured: scraper.login() logs in, returns False,
\* or raises
StartRun ==
    /\ pc \in {"idle", "done", "crashed"}
    /\ run < MaxRuns
    /\ run' = run + 1
    /\ state' = _load_state(file)
    /\ pc' = "scrape"
    /\ idx' = 1
    /\ \E is_stale \in BOOLEAN, a \in {"ok", "false", "raised"} :
        /\ auth' = a
        /\ skip_stories' = (a = "raised")
        /\ alerts' = start_alerts(test_mode, is_stale, a)
    /\ all_results' = <<>>
    /\ story_requests' = 0
    /\ story_failures' = 0
    /\ dirs' = {}
    /\ delays' = 0
    /\ external' = {}
    /\ UNCHANGED <<unitVars, file, faults, last, scraped, new_posts, new_stories, histVars,
                   test_mode>>

\* the scrape error raised to main instead of returned in a result
Scrape_error_raises ==
    /\ pc = "scrape"
    /\ dirs' = dirs \cup {username}
    /\ \E r \in ScrapeResults[username][account_to_process.include_stories /\ logged_in] :
        IF r.error
        THEN /\ Excepted(state)
             /\ prev' = [prev EXCEPT ![username] = NoPass]
        ELSE /\ scraped' = r
             /\ new_posts' = filter_new_posts(state, username, r.posts)
             /\ new_stories' = filter_new_stories(state, username, r.stories)
             /\ pc' = "filtered"
             /\ UNCHANGED <<state, idx, prev, all_results, story_requests, story_failures,
                            delays>>
    /\ UNCHANGED <<unitVars, file, faults, last, run, forwarded, committed,
                   auth, skip_stories, alerts, test_mode, external>>

\* Steps 1 and 2: scrape_account (it makes the account's directory), the return
\* on scrape_result.error, the filters
Scrape ==
    /\ pc = "scrape"
    /\ dirs' = dirs \cup {username}
    /\ \E r \in ScrapeResults[username][account_to_process.include_stories /\ logged_in] :
        IF r.error
        THEN /\ Returned(state, ResultData(0, {}, TRUE))
             /\ prev' = [prev EXCEPT ![username] = NoPass]
        ELSE /\ scraped' = r
             /\ new_posts' = filter_new_posts(state, username, r.posts)
             /\ new_stories' = filter_new_stories(state, username, r.stories)
             /\ pc' = "filtered"
             /\ UNCHANGED <<state, idx, prev, all_results, story_requests, story_failures,
                            delays>>
    /\ UNCHANGED <<unitVars, file, faults, last, run, forwarded, committed,
                   auth, skip_stories, alerts, test_mode, external>>

\* if not new_posts and not new_stories: scraper.cleanup(username); return
NoNewContent ==
    /\ pc = "filtered"
    /\ new_posts = <<>> /\ new_stories = <<>>
    /\ prev' = [prev EXCEPT ![username] = CandIds]
    /\ dirs' = dirs \ {username}
    /\ Returned(state, ResultData(Len(scraped.stories), {}, FALSE))
    /\ UNCHANGED <<unitVars, file, faults, last, run, forwarded, committed,
                   auth, skip_stories, alerts, test_mode, external>>

\* the items of posts and stories as the history variable forwarded keeps them
Items(posts, stories) ==
    {<<username, "post", posts[i].shortcode, posts[i].item>> : i \in DOMAIN posts}
    \cup {<<username, "story", stories[i].shortcode, stories[i].item>> :
              i \in DOMAIN stories}

\* the analysis called whatever the filters returned, with everything scraped
Analyze_unfiltered ==
    /\ pc = "filtered"
    /\ forwarded' = forwarded \cup Items(scraped.posts, scraped.stories)
    /\ external' = external \cup uploads(test_mode)
    /\ pc' = "analyzed"
    /\ UNCHANGED <<unitVars, mainVars, ledgerVars, last, run, idx, scraped, new_posts,
                   new_stories, committed, prev, test_mode, delays>>

\* Step 3: analyzer.analyze_scrape_result(filtered_result) returns, filtered_result
\* holding new_posts and new_stories; Steps 4 to 6: the report, its upload
Analyze ==
    /\ pc = "filtered"
    /\ ~(new_posts = <<>> /\ new_stories = <<>>)
    /\ forwarded' = forwarded \cup Items(new_posts, new_stories)
    /\ external' = external \cup uploads(test_mode)
    /\ pc' = "analyzed"
    /\ UNCHANGED <<test_mode, delays>>
    /\ UNCHANGED <<unitVars, mainVars, ledgerVars, last, run, idx, scraped, new_posts,
                   new_stories, committed, prev>>

\* the exception caught, but the rest of the accounts given up
Raise_aborts ==
    /\ pc \in {"filtered", "analyzed"}
    /\ ~(new_posts = <<>> /\ new_stories = <<>>)
    /\ prev' = [prev EXCEPT ![username] = NoPass]
    /\ idx' = idx /\ pc' = "summary"
    /\ scraped' = NoScrape /\ new_posts' = <<>> /\ new_stories' = <<>>
    /\ UNCHANGED <<unitVars, mainVars, modeVars, ledgerVars, last, run, forwarded,
                   committed>>

\* an exception raised in Step 3, or in Steps 4 to 6 after it: main's except
\* clause logs it and the loop goes on
Raise ==
    /\ pc \in {"filtered", "analyzed"}
    /\ ~(new_posts = <<>> /\ new_stories = <<>>)
    /\ prev' = [prev EXCEPT ![username] = NoPass]
    /\ Excepted(state)
    /\ UNCHANGED <<unitVars, file, faults, last, run, forwarded, committed,
                   auth, skip_stories, alerts, dirs, test_mode, external>>

\* the commit placed before the analysis instead of after it
Commit_before_analysis ==
    /\ pc = "filtered"
    /\ ~(new_posts = <<>> /\ new_stories = <<>>)
    /\ \E st2 \in mark_analyzed(state, username, Shortcodes(new_posts),
                                Shortcodes(new_stories)) :
        /\ state' = st2
        /\ Save(st2, Written(st2))
    /\ committed' = committed \cup NewKeys
    /\ UNCHANGED <<unitVars, mainVars, modeVars, last, runVars, forwarded, prev>>

\* Steps 7 and 8: state_tracker.mark_analyzed returns (whether or not the save
\* completed), scraper.cleanup(username), return result_data
Commit ==
    /\ pc = "analyzed"
    /\ \E st2 \in mark_analyzed(state, username, Shortcodes(new_posts),
                                Shortcodes(new_stories)) :
        \E f2 \in _save_state(st2, file, faults < MaxFaults) :
            /\ Save(st2, f2)
            /\ Returned(st2, ResultData(Len(scraped.stories), NewKeys, FALSE))
    /\ committed' = committed \cup NewKeys
    /\ prev' = [prev EXCEPT ![username] = CandIds]
    /\ dirs' = dirs \ {username}
    /\ UNCHANGED <<unitVars, last, run, forwarded, auth, skip_stories, alerts,
                   test_mode, external>>

\* after the loop: the summary e-mail, update_stats, the story failure alert; main
\* returns and the process with its StateTracker is gone
EndRun ==
    /\ pc = "summary"
    /\ external' = external \cup summary_email(test_mode, all_results)
    /\ alerts' = alerts
                  \o story_failure_alert(test_mode, story_requests, story_failures).alerts
    /\ delays' = 0
    /\ pc' = "done"
    /\ state' = EmptyDict
    /\ idx' = 1
    /\ auth' = "none"
    /\ skip_stories' = FALSE
    /\ all_results' = <<>>
    /\ story_requests' = 0
    /\ story_failures' = 0
    /\ UNCHANGED <<unitVars, file, faults, last, run, scraped, new_posts, new_stories,
                   histVars, dirs, test_mode>>

\* the process dies: anywhere in the run, or inside _save_state while the file is
\* being written
Crash ==
    /\ pc \in {"scrape", "filtered", "analyzed"}
    /\ \/ UNCHANGED <<file, faults>>
       \/ /\ pc = "analyzed"
          /\ faults < MaxFaults
          /\ \E st2 \in mark_analyzed(state, username, Shortcodes(new_posts),
                                      Shortcodes(new_stories)) :
                \E f2 \in _save_state(st2, file, TRUE) \ {Written(st2), file} :
                    Save(st2, f2)
    /\ pc' = "crashed"
    /\ idx' = 1
    /\ state' = EmptyDict
    /\ prev' = [prev EXCEPT ![username] = NoPass]
    /\ scraped' = NoScrape
    /\ new_posts' = <<>>
    /\ new_stories' = <<>>
    /\ auth' = "none"
    /\ skip_stories' = FALSE
    /\ alerts' = <<>>
    /\ all_results' = <<>>
    /\ story_requests' = 0
    /\ story_failures' = 0
    /\ dirs' = {}
    /\ delays' = 0
    /\ external' = {}
    /\ UNCHANGED <<unitVars, last, run, forwarded, committed, test_mode>>

Next ==
    \/ StartRun
    \/ Scrape
    \/ NoNewContent
    \/ Analyze
    \/ Raise
    \/ Commit
    \/ EndRun
    \/ Crash

Spec == Init /\ [][Next]_vars

\* the same runs, every one of them a test run
SpecTest == InitTest /\ [][Next]_vars

----------------------------------------------------------------------------
(* Properties                                                              *)

\* the recorded id set of (username, kind) in a ledger, read off the dict
Recorded(st, u, kind) ==
    IF u \in DOMAIN st /\ kind \in DOMAIN st[u] THEN Range(st[u][kind]) ELSE {}

FilterKind(op) == IF op = "filter_new_posts" THEN "posts" ELSE "stories"

\* C1: a filter call returns exactly the candidates, in their original order,
\* whose shortcode is not in the ledger's recorded set for that username and kind
\* before the call; for a username the ledger does not know it returns them all.
C1_FilterExact ==
    last.op \in {"filter_new_posts", "filter_new_stories"} =>
        LET rec == Recorded(state, last.username, FilterKind(last.op))
            unrecorded(p) == p.shortcode \notin rec
        IN  /\ last.result = SelectSeq(last.cands, unrecorded)
            /\ last.username \notin DOMAIN state => last.result = last.cands

\* a filter call on a known account that drops some candidates and keeps others,
\* and one on an account the ledger does not know
C1_Witness ==
    /\ last.op = "filter_new_posts"
    /\ last.username \in DOMAIN state
    /\ last.result # <<>>
    /\ Len(last.result) < Len(last.cands)
    /\ \E v \in Users : v \notin DOMAIN state

\* C5: persisting is atomic: the ledger file never holds an empty, truncated or
\* partially written document, whatever happens during a save.
C5_AtomicPersist == file.exists => WellFormed(file.text)

\* a step in which no username loses a recorded post id, nor a recorded story id
\* unless the step is a cleanup_old_stories call
C6_Step ==
    \A u \in Users :
        /\ Recorded(state, u, "posts") \subseteq Recorded(state', u, "posts")
        /\ last'.op # "cleanup_old_stories" =>
               Recorded(state, u, "stories") \subseteq Recorded(state', u, "stories")

\* C6: over the life of the ledger (calls, failed saves, crashes, reloads from the
\* file) the recorded post ids and story ids of every username never lose an
\* element, except story ids removed by a cleanup_old_stories call.
C6_NeverLose == [][C6_Step]_vars

NoDuplicates(lst) == Cardinality(Range(lst)) = Len(lst)

\* C8: after mark_analyzed has been called, calling it again with the same username
\* and id lists succeeds and leaves the recorded post and story sets as they are,
\* with no id listed twice.
C8_CommitIdempotent ==
    last.op = "mark_analyzed" =>
        LET again == mark_analyzed(state, last.username, last.post_shortcodes,
                                   last.story_ids)
        IN  /\ again # {}
            /\ \A st2 \in again :
                   /\ DOMAIN st2 = DOMAIN state
                   /\ \A u \in DOMAIN st2, kind \in {"posts", "stories"} :
                          /\ Recorded(st2, u, kind) = Recorded(state, u, kind)
                          /\ NoDuplicates(st2[u][kind])
                          /\ NoDuplicates(state[u][kind])

\* mark_analyzed has been called with a list that repeats an id and with ids of
\* both kinds on a ledger that already held some
C8_Witness ==
    /\ last.op = "mark_analyzed"
    /\ \E a \in {last.post_shortcodes, last.story_ids} : Len(a) > Cardinality(Range(a))
    /\ Cardinality(Recorded(state, last.username, "posts")) = 2

\* a mark_analyzed step compared with the ledger before it
C9_Step ==
    last'.op = "mark_analyzed" =>
        LET u == last'.username
        IN  /\ u \in DOMAIN state'
            /\ Recorded(state', u, "posts")
                   = Recorded(state, u, "posts") \cup Range(last'.post_shortcodes)
            /\ Recorded(state', u, "stories")
                   = Recorded(state, u, "stories") \cup Range(last'.story_ids)
            /\ state'[u]["last_run"] # None
            /\ DOMAIN state' = DOMAIN state \cup {u}
            /\ \A v \in DOMAIN state \ {u} : state'[v] = state[v]

\* C9: a mark_analyzed call leaves each recorded set of its username equal to the
\* previous set united with the given ids, sets last_run, and leaves the records of
\* every other username unchanged.
C9_CommitUnion == [][C9_Step]_vars

\* mark_analyzed has added an id to an account that had one recorded, while another
\* account has a record
C9_Witness ==
    /\ last.op = "mark_analyzed"
    /\ DOMAIN state = Users
    /\ Range(last.post_shortcodes) # Recorded(state, last.username, "posts")
    /\ last.post_shortcodes # <<>>

\* C10: once a ledger has been persisted, filtering any candidates against the
\* ledger a new StateTracker loads from the file gives the same result as filtering
\* them against the in-memory ledger, for every username and both kinds.
C10_RoundTrip ==
    (last.op \in {"mark_analyzed", "cleanup_old_stories"} /\ last.saved) =>
        LET reloaded == _load_state(file)
        IN  \A u \in Users :
                /\ \A cands \in PostCands :
                       filter_new_posts(reloaded, u, cands) = filter_new_posts(state, u, cands)
                /\ \A cands \in StoryCands :
                       filter_new_stories(reloaded, u, cands)
                           = filter_new_stories(state, u, cands)

\* a persisted ledger that records posts and stories, against which the filters
\* drop candidates
C10_Witness ==
    /\ last.op = "mark_analyzed" /\ last.saved
    /\ Recorded(state, "u1", "posts") # {}
    /\ Recorded(state, "u1", "stories") # {}
    /\ Recorded(state, "u2", "posts") # {}

\* the <<username, kind, id>> a ledger records
LedgerKeys(st) ==
    UNION {{<<u, "post", id>> : id \in Recorded(st, u, "posts")}
               \cup {<<u, "story", id>> : id \in Recorded(st, u, "stories")} :
           u \in DOMAIN st}

\* the <<username, kind, id>> of the items whose analysis has returned
ForwardedKeys == {<<f[1], f[2], f[3]>> : f \in forwarded}

\* the candidates of the current pass that the filters did not return
Dropped(cands, new) == {cands[i] : i \in DOMAIN cands} \ {new[i] : i \in DOMAIN new}

\* C2: across runs that reload the ledger from its file, once mark_analyzed has
\* committed an id for (username, kind), no later filter call for that (username,
\* kind) returns an item with that id.
C2_NeverReprocessed ==
    pc = "filtered" => NewKeys \cap committed = {}

\* C3: an id enters the ledger only by a commit, and is committed only after the
\* item carrying it was analysed and analysis returned; so a pass that ends between
\* filter and commit leaves its ids out of the ledger, and a later filter drops no
\* candidate whose id was not committed: such items are returned again.
C3_CommitAfterAnalysis ==
    /\ committed \subseteq ForwardedKeys
    /\ LedgerKeys(state) \subseteq committed
    /\ LedgerKeys(_load_state(file)) \subseteq committed
    /\ pc = "filtered" =>
           /\ \A p \in Dropped(scraped.posts, new_posts) :
                  <<username, "post", p.shortcode>> \in committed
           /\ \A p \in Dropped(scraped.stories, new_stories) :
                  <<username, "story", p.shortcode>> \in committed

\* with every save complete, a run's filter returns again a post and a story that
\* an earlier run analysed without reaching the commit
C3_Witness ==
    /\ pc = "filtered"
    /\ faults = 0
    /\ \E id \in PostIds : <<username, "post", id>> \in NewKeys \cap (ForwardedKeys \ committed)
    /\ \E id \in StoryIds :
           <<username, "story", id>> \in NewKeys \cap (ForwardedKeys \ committed)

\* C4: no story is filtered out as already seen unless that same upstream item was
\* forwarded to analysis earlier; a placeholder id committed for one story does not
\* make the filter drop a different story that gets the same placeholder.
C4_NoStoryLost ==
    pc = "filtered" =>
        \A p \in Dropped(scraped.stories, new_stories) :
            <<username, "story", p.shortcode, p.item>> \in forwarded

\* C7: when the last pass over an account completed and the account presents the
\* same content again, the filters return no post and no story.
C7_SecondRunEmpty ==
    (pc = "filtered" /\ prev[username] = CandIds) =>
        (new_posts = <<>> /\ new_stories = <<>>)

----------------------------------------------------------------------------
(* Properties of the scraper's loops (SpecUnits)                           *)

\* the traversal ran in its browser to its return: no exception, no timeout,
\* no fallback
TraversalReturned ==
    tpc = "returned" /\ captured.fallback_calls = 0 /\ browser = "closed"

\* every URL of the carousel carries its id, and advancing from the last item
\* shows the first again: the ids seen are a, b, c, a, ...
Cycling(c) ==
    /\ Len(c.locs) >= 1
    /\ c.end = "wrap"
    /\ ~c.entry_bare
    /\ \A i \in DOMAIN c.locs : c.locs[i].id # ""
    /\ c.fault.kind \in {"none", "stamp"}

ItemsOf(c) == [i \in DOMAIN c.locs |-> Post(c.locs[i].id, c.locs[i].item)]

\* C11: on a carousel that cycles back to its first item the traversal returns
\* exactly the items of one cycle, in order, and stops by the loop-back check:
\* the count of items never comes near the safety limit max_stories.
C11_LoopClosure ==
    Cycling(carousel) =>
        /\ worker = "loop" => loop.story_count <= Len(carousel.locs)
        /\ TraversalReturned =>
              /\ captured.stories = ItemsOf(carousel)
              /\ loop.done
              /\ loop.story_count < MAX_STORIES

C11_Witness ==
    /\ TraversalReturned
    /\ Cycling(carousel)
    /\ Len(carousel.locs) = 3
    /\ captured.stories = <<Post("101", "A"), Post("102", "B"), Post("103", "C")>>

PostsCalled == call # NoCall /\ call.op = "_scrape_posts_public"
Min(a, b) == IF a <= b THEN a ELSE b
\* the n most recent items of a feed
MostRecent(feed, n) == {feed[i] : i \in 1..Min(n, Len(feed))}

\* C12: with max_posts = N and a feed of M items none of which fails,
\* _scrape_posts_public returns exactly N items when M >= N and exactly M
\* items when M < N.
C12_CapExact ==
    PostsCalled /\ call.failing = {} =>
        Len(call.result) = Min(call.max_posts, Len(call.feed))

\* C13: for every cap N >= 0, N = 0 included, and every feed, with or without
\* items that fail, _scrape_posts_public returns at most N items, all of them
\* among the N most recent of the feed.
C13_CapNeverExceeded ==
    PostsCalled =>
        /\ Len(call.result) <= call.max_posts
        /\ Range(Shortcodes(call.result)) \subseteq MostRecent(call.feed, call.max_posts)

\* the traversal was cut short by an automation error: an exception left
\* _scrape_stories_playwright, or the navigation to the next story failed
NavigationFailed == carousel.fault.kind = "navigation" /\ loop.story_count = carousel.fault.at
Interrupted == loop.raised \/ NavigationFailed

IsPrefix(s, t) == Len(s) <= Len(t) /\ SubSeq(t, 1, Len(s)) = s

\* C19: when an automation error cuts the traversal short after k items were
\* collected, _scrape_stories returns those k items and the fallback was called.
C19_PartialKeptAndSignalled ==
    tpc = "returned" /\ Interrupted =>
        /\ IsPrefix(loop.stories, captured.stories)
        /\ captured.fallback_calls = 1

\* every URL of the carousel carries its id and the carousel ends after its last item
Plain(c) ==
    /\ c.end = "exit"
    /\ ~c.entry_bare
    /\ \A i \in DOMAIN c.locs : c.locs[i].id # ""

\* C20: a failure to take or to stamp the snapshot of one story does not stop
\* the traversal: no exception leaves the loop, and on a carousel that ends
\* after its last item the loop ends only when every item was visited.
C20_SnapshotFailureSkipped ==
    carousel.fault.kind \in {"screenshot", "stamp"} =>
        /\ ~loop.raised
        /\ loop.done /\ Plain(carousel) => loop.story_count = Len(carousel.locs)

\* the same carousel when nothing goes wrong
FaultFree(c) == [c EXCEPT !.fault = NoFault]

\* the traversal has run its loop to the end in its thread
LoopOver == worker = "finished" /\ ~NoStories("u1", carousel) /\ browser = "closed"

\* C21: when the download of one story's media fails, the story is still appended,
\* with media_path None, and the traversal advances as if nothing had failed: it
\* returns the same stories, from the same last page, as on the carousel without
\* the failure.
C21_DownloadFailureKept ==
    LoopOver /\ carousel.fault.kind = "download" =>
        LET ref == StoryLoop(FaultFree(carousel), LoopStart(Enter(carousel)))
            at == carousel.fault.at
        IN  /\ ~loop.raised
            /\ loop.stories = ref.stories
            /\ loop.b = ref.b
            /\ Len(loop.media_paths) = Len(loop.stories)
            /\ at <= Len(loop.stories) => loop.media_paths[at] = None

C21_Witness ==
    /\ LoopOver /\ Plain(carousel)
    /\ carousel.fault = [at |-> 2, kind |-> "download"]
    /\ Len(loop.stories) = 3
    /\ loop.media_paths = <<"file", None, "file">>

C23_TimeoutUnblocks ==
    timed_out => tpc \in {"fallback", "returned"}

\* C24: the browser a traversal launched is closed on every way out of it: when
\* its function has been left, by a return or by an exception, and when the
\* caller's wait has timed out.
C24_SessionTornDown ==
    worker = "finished" \/ timed_out => browser # "open"

OnLegacyRecord == call # NoCall /\ call.op = "legacy_record"

\* C29: on a persisted record that lacks the posts or the stories field every
\* ledger operation takes the missing field as empty: the filter of that kind
\* returns all its candidates, and mark_analyzed does not raise and records the
\* ids it is given.
C29_MissingFieldIsEmpty ==
    OnLegacyRecord =>
        LET r == call.state["u1"]
        IN  /\ "posts" \notin DOMAIN r => call.new_posts = call.post_cands
            /\ "stories" \notin DOMAIN r => call.new_stories = call.story_cands
            /\ ~call.raised
            /\ \A st2 \in call.marked :
                  /\ Range(call.post_shortcodes) \subseteq get_analyzed_posts(st2, "u1")
                  /\ Range(call.story_ids) \subseteq get_analyzed_stories(st2, "u1")

----------------------------------------------------------------------------
(* Properties of main                                                      *)

AlertDecided == call # NoCall /\ call.op = "story_failure_alert"

\* C14: at the end of a run that is not a test run the story failure alert is sent
\* once when story_failures / story_requests > 0.5 and not at all otherwise. The
\* comparison is strict: 2 failures of 4 requests send none, 3 of 4 send one. With
\* no request nothing is sent and nothing is divided.
C14_FailureRateAlert ==
    AlertDecided /\ ~call.test_mode =>
        LET r == call.story_requests
            f == call.story_failures
            sent == Len(call.result.alerts)
        IN  /\ sent \in {0, 1}
            /\ sent = 1 <=> (r > 0 /\ 2 * f > r)
            /\ r = 4 /\ f = 2 => sent = 0
            /\ r = 4 /\ f = 3 => sent = 1
            /\ r = 0 => sent = 0 /\ ~call.result.divided

C14_Witness ==
    /\ AlertDecided /\ ~call.test_mode
    /\ call.story_requests = 4 /\ call.story_failures = 3
    /\ call.result.alerts = <<"story_failures">>

\* process_account is running, or about to be called, for the account at idx
Processing == pc \in {"scrape", "filtered", "analyzed"}
AuthFailed == auth \in {"false", "raised"}
Count(seq, x) == Cardinality({i \in DOMAIN seq : seq[i] = x})

\* C15: when the login did not give a logged-in session, because it returned False
\* or because it raised, every account is processed with include_stories false and
\* exactly one login failure alert was sent in the run.
C15_AuthFailureDowngrades ==
    AuthFailed /\ Processing =>
        /\ ~account_to_process.include_stories
        /\ Count(alerts, "login_failed") = 1

\* C16: when the loop of main is over, all_results holds exactly one record per
\* account of the list, in order, also for an account whose processing raised.
C16_OneRecordPerAccount ==
    pc = "summary" =>
        /\ Len(all_results) = Len(Accounts)
        /\ \A i \in DOMAIN all_results : all_results[i].username = Accounts[i].username

\* the accounts whose processing is over in this run
Processed == {Accounts[i].username : i \in {j \in DOMAIN Accounts : j < idx \/ pc = "summary"}}

\* C17: the failure of one account does not abort the run: the loop of main ends
\* only after the last account of the list was attempted, and every account that
\* returned without error has the items of its analysis forwarded and committed.
C17_RunNeverAborted ==
    /\ pc = "summary" => idx = Len(Accounts)
    /\ Processing \/ pc = "summary" =>
          \A i \in DOMAIN all_results :
              ~all_results[i].error =>
                  all_results[i].analysed \subseteq (ForwardedKeys \cap committed)

\* the first account failed (an exception: no record; or a scrape error) and the
\* second was still processed, its new post forwarded and committed
C17_Witness ==
    /\ pc = "summary"
    /\ idx = Len(Accounts)
    /\ \A i \in DOMAIN all_results : all_results[i].username # "u1"
    /\ \E i \in DOMAIN all_results :
          /\ all_results[i].username = "u2"
          /\ <<"u2", "post", "q1">> \in all_results[i].analysed
    /\ <<"u2", "post", "q1">> \in ForwardedKeys \cap committed

\* C18: once an account has been processed, whatever the outcome (success, no new
\* content, scrape error, exception), its media directory is gone.
C18_MediaDirRemoved ==
    dirs \cap Processed = {}

\* the place of an account in the list
Position(u) == CHOOSE i \in DOMAIN Accounts : Accounts[i].username = u

\* C25: the accounts are processed one after the other in the order of the list:
\* when account idx is being processed every earlier account is over, a returned
\* account's commit included, and no later account was begun; the results are
\* appended in list order; one inter-account delay was slept between every two
\* consecutive accounts, whether or not the earlier one failed, none after the last.
C25_SequentialInOrder ==
    Processing \/ pc = "summary" =>
        /\ delays = idx - 1
        /\ \A i \in DOMAIN all_results :
              /\ all_results[i].username \in Processed
              /\ ~all_results[i].error => all_results[i].analysed \subseteq committed
        /\ \A i, j \in DOMAIN all_results :
              i < j => Position(all_results[i].username)
                         < Position(all_results[j].username)
        /\ \A u \in dirs : Position(u) <= idx

\* the first account raised and left no record, the delay was slept all the same,
\* and the second account came after it and returned with its post committed
C25_Witness ==
    /\ pc = "summary"
    /\ delays = Len(Accounts) - 1
    /\ Len(all_results) = 1
    /\ all_results[1].username = "u2"
    /\ <<"u2", "post", "q1">> \in all_results[1].analysed \cap committed

\* the accounts of the list that ask for stories and were not downgraded
Asking == {i \in DOMAIN Accounts : Accounts[i].include_stories /\ ~skip_stories}

\* the accounts with a record in all_results that shows at least one scraped story
Yielded ==
    {i \in DOMAIN Accounts :
        \E k \in DOMAIN all_results :
            /\ all_results[k].username = Accounts[i].username
            /\ all_results[k].scraped_stories_count > 0}

\* C26: when the loop of main is over, story_requests is the number of accounts that
\* asked for stories and were not downgraded, and story_failures the number of
\* those that yielded no scraped story, an account whose processing ended in an
\* error included.
C26_StoryCounters ==
    pc = "summary" =>
        /\ story_requests = Cardinality(Asking)
        /\ story_failures = Cardinality(Asking \ Yielded)

\* C27: in one run of main each alert condition (login failure, story scraping
\* failing, stale cookies) sends at most one alert, whatever the accounts did.
C27_OneAlertPerCondition ==
    \A kind \in {"login_failed", "story_failures", "cookie_stale"} :
        Count(alerts, kind) <= 1

\* a run over both accounts that ended with two conditions met, each alerted once
C27_Witness ==
    /\ pc = "done"
    /\ alerts = <<"cookie_stale", "story_failures">>

\* the step in which analyze_scrape_result is called and returns
AnalysisCalled == pc = "filtered" /\ pc' = "analyzed"

\* C28: the analysis of an account receives exactly the posts and the stories that
\* filter_new_posts and filter_new_stories returned for what was scraped in this
\* run, none of them recorded in the ledger, and it is not called when both filters
\* returned nothing.
C28_AnalysisGetsFiltered ==
    [][AnalysisCalled =>
          /\ forwarded' = forwarded \cup Items(new_posts, new_stories)
          /\ new_posts = filter_new_posts(state, username, scraped.posts)
          /\ new_stories = filter_new_stories(state, username, scraped.stories)
          /\ \A i \in DOMAIN new_posts :
                new_posts[i].shortcode \notin get_analyzed_posts(state, username)
          /\ \A i \in DOMAIN new_stories :
                new_stories[i].shortcode \notin get_analyzed_stories(state, username)
          /\ ~(new_posts = <<>> /\ new_stories = <<>>)]_vars

\* an analysis that returned after the filters had dropped a recorded post and
\* kept a new story
C28_Witness ==
    /\ pc = "analyzed"
    /\ Len(new_posts) < Len(scraped.posts)
    /\ new_stories # <<>>
    /\ Items(new_posts, new_stories) \subseteq forwarded

\* C30: in a test run of main nothing leaves the machine: no Drive upload, no
\* summary e-mail, no alert; the accounts are scraped, filtered, analysed and
\* committed to the ledger all the same.
C30_TestModeNoSideEffects ==
    test_mode =>
        /\ external = {}
        /\ alerts = <<>>
        /\ \A i \in DOMAIN all_results :
              ~all_results[i].error =>
                  all_results[i].analysed \subseteq (ForwardedKeys \cap committed)

\* a test run that is over, summary and alert decisions included: the post of u1
\* analysed, committed and written to state.json, and nothing sent
C30_Witness ==
    /\ test_mode
    /\ pc = "done"
    /\ <<"u1", "post", "p1">> \in ForwardedKeys \cap committed
    /\ file.exists /\ "p1" \in get_analyzed_posts(_load_state(file), "u1")
    /\ external = {} /\ alerts = <<>>

----------------------------------------------------------------------------
(* Frame and pruning properties of the ledger                              *)

\* a filter is called and returns
FilterCalled == Idle /\ last'.op \in {"filter_new_posts", "filter_new_stories"}

\* C31: filter_new_posts and filter_new_stories change nothing: the ledger in
\* memory and the file state.json are after the call what they were before it, for a
\* username with a record and without, and the candidates are only read: the result
\* is made of items of the list that was given.
C31_FiltersPure ==
    [][FilterCalled =>
          /\ state' = state
          /\ file' = file
          /\ \A i \in DOMAIN last'.result :
                \E j \in DOMAIN last'.cands : last'.result[i] = last'.cands[j]]_vars

\* a filter has returned all its candidates for a username that has no record,
\* while another username has one, in memory and in the file
C31_Witness ==
    /\ last.op \in {"filter_new_posts", "filter_new_stories"}
    /\ last.username \notin DOMAIN state
    /\ state # EmptyDict
    /\ file = Written(state)
    /\ last.cands # <<>> /\ last.result = last.cands

\* cleanup_old_stories is called and returns
CleanupCalled == Idle /\ last'.op = "cleanup_old_stories"

\* C32: cleanup_old_stories(username, max_stories) leaves at most max_stories story
\* ids recorded for the username, changes no recorded post id and no record of
\* another username, and changes nothing when at most max_stories story ids were
\* recorded.
C32_PruneBounded ==
    [][CleanupCalled =>
          LET u == last'.username
              n == last'.max_stories
              before == IF u \in DOMAIN state THEN Get(state[u], "stories", <<>>) ELSE <<>>
              after == IF u \in DOMAIN state' THEN Get(state'[u], "stories", <<>>) ELSE <<>>
          IN  /\ Len(after) <= n
              /\ get_analyzed_posts(state', u) = get_analyzed_posts(state, u)
              /\ DOMAIN state' = DOMAIN state
              /\ \A v \in DOMAIN state \ {u} : state'[v] = state[v]
              /\ Len(before) <= n => state' = state /\ file' = file]_vars

Pruned ==
    /\ call # NoCall /\ call.op = "commits_then_prune"
    /\ Len(call.before) > call.max_stories

\* the last of the mark_analyzed calls that was given id
LastCommit(id, commits) ==
    CHOOSE i \in DOMAIN commits :
        /\ id \in Range(commits[i])
        /\ \A j \in DOMAIN commits : id \in Range(commits[j]) => j <= i

\* C33: when cleanup_old_stories prunes after a sequence of mark_analyzed calls, it
\* keeps the most recently committed story ids: every id it keeps was committed no
\* earlier than every id it removes.
C33_PruneKeepsMostRecent ==
    Pruned =>
        \A kept \in Range(call.after) :
            \A removed \in Range(call.before) \ Range(call.after) :
                LastCommit(kept, call.commits) >= LastCommit(removed, call.commits)

\* C39: after a mark_analyzed call has returned, the file state.json holds the
\* ledger that is in memory: a process that loads the file gets every id recorded.
C39_FileEqualsMemory ==
    last.op = "mark_analyzed" => _load_state(file) = state

\* process_account's scrape_account returned an error result: the only steps from
\* "scrape" to the next account or to the end of the loop
ScrapeFailed == pc = "scrape" /\ pc' \in {"scrape", "summary"}

\* C40: when scrape_account returns an error result, process_account gives nothing
\* to the analysis, leaves the ledger of every username as it was, in memory and in
\* state.json, and returns a result that carries the error.
C40_ScrapeErrorReturned ==
    [][ScrapeFailed =>
          /\ forwarded' = forwarded
          /\ committed' = committed
          /\ state' = state
          /\ file' = file
          /\ all_results' = Append(all_results, ResultData(0, {}, TRUE))]_vars

\* the scrape of u2 failed in a run whose ledger holds the post of u1, in memory and
\* in state.json: the error is in the results and the ledger is as it was
C40_Witness ==
    /\ pc = "summary"
    /\ \E i \in DOMAIN all_results :
          all_results[i].username = "u2" /\ all_results[i].error
    /\ "p1" \in get_analyzed_posts(state, "u1")
    /\ "u2" \notin DOMAIN state
    /\ file = Written(state)

----------------------------------------------------------------------------
(* Properties of the story traversal loop                                  *)

\* one iteration of the traversal's loop
Iterated == worker = "loop" /\ ~loop.done /\ loop' # loop

\* C34: whatever the carousel shows, also a new id after every advance for ever,
\* the traversal's loop ends after at most max_stories = 30 iterations with at most
\* 30 items: an iteration leaves the loop or adds one to the item count.
C34_LoopBounded ==
    /\ [](/\ loop.story_count <= MAX_STORIES
          /\ Len(loop.stories) <= loop.story_count)
    /\ [][Iterated => loop'.done \/ loop'.story_count = loop.story_count + 1]_vars

\* a carousel that never ends was left by the safety limit, 30 items returned
C34_Witness ==
    /\ TraversalReturned
    /\ carousel.end = "endless"
    /\ loop.story_count = MAX_STORIES
    /\ Len(captured.stories) = MAX_STORIES

\* a carousel of finitely many items, nothing failing while it is traversed
Finite(c) == c.end # "endless" /\ c.fault = NoFault

\* C35: on a finite carousel with no failure the traversal returns one item for
\* each item of the carousel, in the carousel's order, each captured from its own
\* location and under its own id where the location has one, also when the first
\* location carries no id on entry: the forced advance skips nothing.
C35_OneItemPerStory ==
    Finite(carousel) /\ TraversalReturned =>
        /\ Len(captured.stories) = Len(carousel.locs)
        /\ \A i \in DOMAIN captured.stories :
              /\ captured.stories[i].item = carousel.locs[i].item
              /\ carousel.locs[i].id # "" =>
                    captured.stories[i].shortcode = carousel.locs[i].id

\* the loop of the traversal is running or was left without an exception
Collecting == worker \in {"loop", "finished"} /\ ~loop.raised

\* C36: the items one traversal collects have pairwise distinct ids, real or
\* temp_N: whenever the loop is at its head or was left, the ids of the items
\* collected are the set seen_ids and no id occurs twice.
C36_DistinctIds ==
    Collecting =>
        /\ {loop.stories[i].shortcode : i \in DOMAIN loop.stories} = loop.seen_ids
        /\ Len(loop.stories) = Cardinality(loop.seen_ids)

\* a carousel that shows its first item again after the last was traversed: the
\* three items were collected once each
C36_Witness ==
    /\ TraversalReturned
    /\ carousel.end = "wrap"
    /\ Len(captured.stories) = 3
    /\ loop.seen_ids = {"101", "102", "103"}

\* C38: every item the traversal emits was captured while the browser was at a
\* location of the requested account's carousel: none from a page outside the
\* stories section or of another account, the forced advance included.
C38_CapturedInsideCarousel ==
    worker \in {"loop", "finished"} =>
        \A i \in DOMAIN loop.stories :
            \E pos \in 1..MAX_STORIES + Len(carousel.locs) :
                /\ pos <= Len(carousel.locs) \/ carousel.end = "endless"
                /\ Loc(carousel, pos).user = "u1"
                /\ Loc(carousel, pos).item = loop.stories[i].item

VideoCaptured == call # NoCall /\ call.op = "video_step"

\* the video URLs among the requests, in the order of the requests
RECURSIVE VideoUrls(_)
VideoUrls(reqs) ==
    IF reqs = <<>> THEN <<>>
    ELSE (IF IsVideoUrl(Head(reqs)) THEN <<Head(reqs)>> ELSE <<>>) \o VideoUrls(Tail(reqs))

\* C37: the intercepted video URL given to a story is the last of the URLs that
\* were appended to captured_video_urls during the story's own video step, after
\* the count taken at its start; a URL buffered before is never given to it (with
\* none of its own the story gets what the video element's src gave); and the
\* buffer is only appended to: what it held before is still there, in order.
C37_VideoUrlFromOwnWindow ==
    VideoCaptured =>
        LET own == VideoUrls(call.during)
        IN  /\ call.result.urls_before = Len(call.buffer_before)
            /\ call.result.buffer = call.buffer_before \o own
            /\ own # <<>> => call.result.video_url = own[Len(own)]
            /\ own = <<>> => call.result.video_url = call.src

\* two video URLs were intercepted during the step of a story, after another one
\* buffered earlier and an image: the story got the last of its own
C37_Witness ==
    /\ VideoCaptured
    /\ call.before = <<"v1.mp4", "img.jpg">>
    /\ call.during = <<"v2.mp4", "v1.mp4">>
    /\ call.result.buffer = <<"v1.mp4", "v2.mp4", "v1.mp4">>
    /\ call.result.video_url = "v1.mp4"

====
